---------------------------- MODULE Spec2Model ----------------------------
(***************************************************************************)
(* A model of ledger_afa.py: the yearly depreciation (AfA) report computed *)
(* from a ledger journal.                                                  *)
(*                                                                         *)
(* The journal is the in-memory structure ledger.read_journal returns: a   *)
(* tree of accounts and a list of transactions, each a list of postings.   *)
(* A posting carries its own date (in ledger it defaults to the date of    *)
(* its transaction, and a posting may override it).  The program runs once *)
(* over that journal: main calls get_afa_posts, get_inventory, builds one  *)
(* InventoryItem per discovered (account, transaction) pair, creates the   *)
(* table and prints it.                                                    *)
(*                                                                         *)
(* Terminal colouring and the conversion of the figures to text (colored,  *)
(* str, tabulate) are left out: a table row holds the figures themselves.  *)
(***************************************************************************)
EXTENDS Integers, Sequences, FiniteSets, TLC

VARIABLES
    parent,     \* the account tree: account -> its parent (0 above the master account)
    journal,    \* the transactions of the journal, in file order
    year,       \* args.jahr
    konto,      \* args.konto, a sequence of characters
    pc,         \* the position of main (or of the tree walk)
    top,        \* get_afa_posts: the account the pattern resolved to (0: None)
    accounts,   \* get_afa_posts: [top] + get_sub_accounts(top); the walk's result
    posts,      \* main: the postings get_afa_posts returned
    inventory,  \* main: the pairs of get_inventory not yet turned into an item
    items,      \* main: the InventoryItems built so far, in construction order
    table,      \* main: the table create_table returned
    stdout      \* what has been printed, line by line

vars == <<parent, journal, year, konto, pc, top, accounts, posts, inventory,
          items, table, stdout>>

---------------------------------------------------------------------------
(* Bounds of the model *)

\* A journal holds at most MaxXacts transactions.
MaxXacts == 3

\* The tree walk is checked on every account tree of at most MaxAccounts accounts.
MaxAccounts == 7

---------------------------------------------------------------------------
(* Dates, names *)

\* A date as the number yyyymmdd: ordered as dates are, with the year recoverable.
Date(y, m, d) == y * 10000 + m * 100 + d

\* date.year
YearOf(dt) == dt \div 10000

None == 0

\* Account names, as sequences of characters.
NameAfA == <<"A", "f", "A">>
NameGWG == <<"G", "W", "G">>
NameBank == <<"B", "a", "n", "k">>
NameInv == <<"I", "n", "v">>
NamePC == <<"P", "C">>
NameNonexistent == <<"N", "o", "n", "e", "x", "i", "s", "t", "e", "n", "t">>

\* The accounts of the journals of the report: the master account (1, with the
\* empty name), AfA, AfA:GWG, Bank, Inv, Inv:PC.
Master == 1
AfA == 2
GWG == 3
Bank == 4
Inv == 5
PC == 6

\* account.name, the last segment of the account's full name
name(a) ==
    CASE a = AfA -> NameAfA
      [] a = GWG -> NameGWG
      [] a = Bank -> NameBank
      [] a = Inv -> NameInv
      [] a = PC -> NamePC
      [] OTHER -> <<>>

\* The account tree of the journals of the report.
ReportTree == (Master :> 0) @@ (AfA :> Master) @@ (GWG :> AfA) @@ (Bank :> Master)
              @@ (Inv :> Master) @@ (PC :> Inv)

\* account.fullname(): the names on the path from the master account, joined by
\* ":"; the master's empty name is left out.
RECURSIVE fullname(_)
fullname(a) ==
    IF parent[a] = 0 THEN name(a)
    ELSE LET up == fullname(parent[a])
         IN  IF up = <<>> THEN name(a) ELSE up \o <<":">> \o name(a)

---------------------------------------------------------------------------
(* The journals *)

Posting(a, amt, dt) == [account |-> a, amount |-> amt, date |-> dt]

Xact(c, dt, ps) == [code |-> c, date |-> dt, posts |-> ps]

D1 == Date(2020, 1, 15)
D2 == Date(2020, 12, 31)
D3 == Date(2021, 6, 1)

\* A purchase: the asset is capitalized, one posting funds it.
Purchase(c, dt) ==
    Xact(c, dt, <<Posting(PC, 1000, dt), Posting(Bank, -1000, dt)>>)

\* A purchase funded by two postings.
SplitPurchase(c, dt) ==
    Xact(c, dt, <<Posting(PC, 1000, dt), Posting(Bank, -600, dt),
                  Posting(Bank, -400, dt)>>)

\* A purchase of two items booked as two postings on the asset account.
DoublePurchase(c, dt) ==
    Xact(c, dt, <<Posting(PC, 1000, dt), Posting(PC, 1000, dt),
                  Posting(Bank, -2000, dt)>>)

\* A depreciation: the asset loses value, the depreciation account afa receives it.
Deprec(c, dt, afa) ==
    Xact(c, dt, <<Posting(PC, -200, dt), Posting(afa, 200, dt)>>)

\* A depreciation split over two depreciation accounts.
DeprecSplit(c, dt) ==
    Xact(c, dt, <<Posting(PC, -200, dt), Posting(AfA, 100, dt),
                  Posting(GWG, 100, dt)>>)

\* A depreciation whose asset posting carries a date of its own, pdt.
DeprecShifted(c, dt, pdt) ==
    Xact(c, dt, <<Posting(PC, -200, pdt), Posting(AfA, 200, dt)>>)

\* The transactions a journal is made of.
XactChoices ==
    { Purchase("INV1", D1), Purchase("INV2", D1), Purchase("INV1", D3),
      SplitPurchase("INV2", D1),
      DoublePurchase("INV1", D1),
      Deprec("INV1", D2, AfA), Deprec("INV1", D3, AfA), Deprec("INV2", D3, GWG),
      DeprecSplit("INV1", D3),
      DeprecShifted("INV2", D3, D2) }

Journals == UNION { [1..n -> XactChoices] : n \in 0..MaxXacts }

Years == {2020, 2021}

Kontos == {NameAfA, NameGWG, NameNonexistent}

---------------------------------------------------------------------------
(* Postings of the journal *)

\* A posting is referred to by its place <<transaction, index>>; p.id is that place.
PostRefs ==
    UNION { { <<x, i>> : i \in 1..Len(journal[x].posts) } : x \in 1..Len(journal) }

Post(r) == journal[r[1]].posts[r[2]]

\* p.xact.code
Code(r) == journal[r[1]].code

\* xact.posts(), in order
XactPosts(x) == [i \in 1..Len(journal[x].posts) |-> <<x, i>>]

\* account.posts(), as the set of the account's postings (their ids are distinct)
AccountPosts(a) == { r \in PostRefs : Post(r).account = a }

\* The sum of the second components of a set of <<key, number>> pairs.
RECURSIVE Sum(_)
Sum(S) ==
    IF S = {} THEN 0
    ELSE LET e == CHOOSE e \in S : TRUE IN e[2] + Sum(S \ {e})

Abs(n) == IF n < 0 THEN -n ELSE n

\* The elements of a sequence.
Range(s) == { s[i] : i \in 1..Len(s) }

---------------------------------------------------------------------------
(* The account tree *)

\* account.accounts(): the children of an account, in the order of iteration
Children(a) == { c \in DOMAIN parent : parent[c] = a }

\* A set of accounts as the sequence of its elements in increasing order.
RECURSIVE Ascending(_)
Ascending(S) ==
    IF S = {} THEN <<>>
    ELSE LET m == CHOOSE m \in S : \A o \in S : m <= o
         IN  <<m>> \o Ascending(S \ {m})

\* The concatenation of the sequences of a sequence of sequences.
RECURSIVE Flatten(_)
Flatten(ss) == IF ss = <<>> THEN <<>> ELSE Head(ss) \o Flatten(Tail(ss))

\* get_sub_accounts without its recursion: the children alone.
SubAccountsChildrenOnly(account) == Ascending(Children(account))

\* get_sub_accounts: the children, then the sub accounts of each child.
RECURSIVE get_sub_accounts(_)
get_sub_accounts(account) ==
    LET top_ == Ascending(Children(account))
        sub == Flatten([i \in 1..Len(top_) |-> get_sub_accounts(top_[i])])
    IN  top_ \o sub

\* A pattern without regular-expression operators matches a name that holds it.
Matches(pattern, s) ==
    \E i \in 0..(Len(s) - Len(pattern)) : SubSeq(s, i + 1, i + Len(pattern)) = pattern

\* journal.find_account_re: the first account, parents before children, whose
\* full name the pattern matches; None when there is none.
RECURSIVE FindIn(_, _)
FindIn(as, pattern) ==
    IF as = <<>> THEN None
    ELSE IF Matches(pattern, fullname(Head(as))) THEN Head(as)
    ELSE LET below == FindIn(Ascending(Children(Head(as))), pattern)
         IN  IF below # None THEN below ELSE FindIn(Tail(as), pattern)

find_account_re(pattern) == FindIn(<<Master>>, pattern)

---------------------------------------------------------------------------
(* get_afa_posts, get_inventory *)

\* get_afa_posts without the check of line 26.
NotFoundUnchecked(t) == FALSE

\* get_afa_posts, line 26: the pattern resolved to no account
NotFound(t) == t = None

\* Line 29 without the sub accounts.
AfaAccountsTopOnly(t) == <<t>>

\* get_afa_posts, line 29
AfaAccounts(t) == <<t>> \o get_sub_accounts(t)

\* a.posts() of one account, in journal order
PostsOf(a) ==
    LET flat == Flatten([x \in 1..Len(journal) |-> XactPosts(x)])
    IN  SelectSeq(flat, LAMBDA r : Post(r).account = a)

\* Lines 30-31 without the condition on the year.
AfaPostsAnyYear(accs, yr) == Flatten([i \in 1..Len(accs) |-> PostsOf(accs[i])])

\* get_afa_posts, lines 30-31: the postings of the accounts that are dated in the year
AfaPosts(accs, yr) ==
    SelectSeq(Flatten([i \in 1..Len(accs) |-> PostsOf(accs[i])]),
              LAMBDA r : YearOf(Post(r).date) = yr)

\* get_inventory: for each posting, the (account, transaction) pairs of the
\* postings of its transaction on another account (by full name).  Accounts are
\* hashed and compared by full name, transactions by identity.
get_inventory(ps) ==
    UNION { { <<Post(r).account, r[1]>> :
                r \in { q \in Range(XactPosts(post[1])) :
                          fullname(Post(q).account) # fullname(Post(post).account) } } :
            post \in Range(ps) }

---------------------------------------------------------------------------
(* InventoryItem *)

\* The postings of the account that carry the code.
CodePosts(account, code) == { p \in AccountPosts(account) : Code(p) = code }

\* self.buy_date, lines 136-137: the least date of the account's postings with the code
buy_date(account, code) ==
    LET dates == { Post(p).date : p \in CodePosts(account, code) }
    IN  CHOOSE d \in dates : \A e \in dates : d <= e

\* first_post, lines 140-142: the list of the positive postings with the code on
\* the buy date.  The unpacking of line 146 succeeds when it holds one posting.
first_post(account, code) ==
    LET buy == buy_date(account, code)
    IN  SelectSeq(PostsOf(account),
                  LAMBDA p : Code(p) = code /\ Post(p).date = buy /\ Post(p).amount > 0)

Unpacked(fp) == Len(fp) = 1

\* The message of the ValueError the unpacking raises, printed at line 148.
UnpackMessage(fp) ==
    IF Len(fp) = 0 THEN "need more than 0 values to unpack"
    ELSE "too many values to unpack"

\* Lines 155-160 summing the funding postings pn themselves, without abs.
TotalValueOfFunding(account, code) ==
    LET buy == buy_date(account, code)
        pairs == { pp \in AccountPosts(account) \X PostRefs :
                     /\ pp[2][1] = pp[1][1]
                     /\ Post(pp[1]).date = buy
                     /\ Code(pp[1]) = code
                     /\ Post(pp[2]).amount < 0
                     /\ pp[1] # pp[2] }
    IN  Sum({ <<pp, Post(pp[2]).amount>> : pp \in pairs })

\* self.total_value, lines 155-160: abs(p.amount) once for each pair of a posting p
\* of the account and a posting pn of p's transaction that passes the conditions.
total_value(account, code) ==
    LET buy == buy_date(account, code)
        pairs == { pp \in AccountPosts(account) \X PostRefs :
                     /\ pp[2][1] = pp[1][1]
                     /\ Post(pp[1]).date = buy
                     /\ Code(pp[1]) = code
                     /\ Post(pp[2]).amount < 0
                     /\ pp[1] # pp[2] }
    IN  Sum({ <<pp, Abs(Post(pp[1]).amount)>> : pp \in pairs })

\* Lines 162-168 without the purchases of the current year.
LastYearValueNoPurchases(account, code, yr) ==
    Sum({ <<p, Post(p).amount>> :
          p \in { q \in AccountPosts(account) :
                    YearOf(Post(q).date) < yr /\ Code(q) = code } })

\* self.last_year_value, lines 162-168
last_year_value(account, code, yr) ==
    Sum({ <<p, Post(p).amount>> :
          p \in { q \in AccountPosts(account) :
                    \/ YearOf(Post(q).date) < yr /\ Code(q) = code
                    \/ YearOf(Post(q).date) = yr /\ Post(q).amount > 0
                       /\ Code(q) = code } })

\* Lines 170-173 with < for <=.
NextYearValueBefore(account, code, yr) ==
    Sum({ <<p, Post(p).amount>> :
          p \in { q \in AccountPosts(account) :
                    YearOf(Post(q).date) < yr /\ Code(q) = code } })

\* self.next_year_value, lines 170-173
next_year_value(account, code, yr) ==
    Sum({ <<p, Post(p).amount>> :
          p \in { q \in AccountPosts(account) :
                    YearOf(Post(q).date) <= yr /\ Code(q) = code } })

\* Lines 175-177 raising only for an empty list of first postings.
DeprecationRaisesWhenEmpty(account, code, yr) ==
    /\ Len(first_post(account, code)) = 0
    /\ \E p \in AccountPosts(account) : YearOf(Post(p).date) = yr

\* Lines 175-177: first_post.id is read for each posting of the account dated in
\* the year; when the unpacking failed first_post is still the list, which has no
\* attribute id, and the read raises an AttributeError.
DeprecationRaises(account, code, yr) ==
    /\ ~Unpacked(first_post(account, code))
    /\ \E p \in AccountPosts(account) : YearOf(Post(p).date) = yr

\* self.deprecation_amount, lines 175-181, when it does not raise
deprecation_amount(account, code, yr) ==
    LET fp == first_post(account, code)
    IN  Sum({ <<p, Post(p).amount>> :
              p \in { q \in AccountPosts(account) :
                        /\ YearOf(Post(q).date) = yr
                        /\ q # fp[1]
                        /\ Post(q).amount < 0
                        /\ Code(q) = code } })

\* The InventoryItem the constructor completes.  first_post is the constructor's
\* local variable, kept here to tell the items built without one.
InventoryItem(account, xact, yr) ==
    LET code == journal[xact].code
    IN  [ code |-> code,
          item |-> name(account),
          account |-> fullname(account),
          year |-> yr,
          buy_date |-> buy_date(account, code),
          first_post |-> first_post(account, code),
          total_value |-> total_value(account, code),
          last_year_value |-> last_year_value(account, code, yr),
          next_year_value |-> next_year_value(account, code, yr),
          deprecation_amount |-> deprecation_amount(account, code, yr) ]

---------------------------------------------------------------------------
(* create_table *)

\* sorted(items, key=buy_date) is stable: an item goes behind those of its date.
RECURSIVE Insert(_, _)
Insert(s, e) ==
    IF s = <<>> THEN <<e>>
    ELSE IF e.buy_date < Head(s).buy_date THEN <<e>> \o s
    ELSE <<Head(s)>> \o Insert(Tail(s), e)

RECURSIVE SortedByBuyDate(_)
SortedByBuyDate(s) ==
    IF s = <<>> THEN <<>>
    ELSE Insert(SortedByBuyDate(SubSeq(s, 1, Len(s) - 1)), s[Len(s)])

\* table_entry for an item, lines 102-110
ItemRow(x) ==
    [ kind |-> "row", date |-> x.buy_date, code |-> x.code, item |-> x.item,
      total_value |-> x.total_value, last_year_value |-> x.last_year_value,
      deprecation_amount |-> x.deprecation_amount,
      next_year_value |-> x.next_year_value ]

\* create_table: the header with the two years, the items by buy date, the sums
create_table(its, yr) ==
    LET header == [ kind |-> "header", buchwert_last |-> yr - 1, buchwert_next |-> yr ]
        sorted == SortedByBuyDate(its)
        rows == [ i \in 1..Len(sorted) |-> ItemRow(sorted[i]) ]
        footer == [ kind |-> "footer", item |-> "Gesamt",
                    total_value |-> Sum({ <<i, its[i].total_value>> : i \in 1..Len(its) }),
                    last_year_value |->
                        Sum({ <<i, its[i].last_year_value>> : i \in 1..Len(its) }),
                    deprecation_amount |->
                        Sum({ <<i, its[i].deprecation_amount>> : i \in 1..Len(its) }),
                    next_year_value |->
                        Sum({ <<i, its[i].next_year_value>> : i \in 1..Len(its) }) ]
    IN  <<header>> \o rows \o <<footer>>

---------------------------------------------------------------------------
(* main *)

Init ==
    /\ parent = ReportTree
    /\ journal \in Journals
    /\ year \in Years
    /\ konto \in Kontos
    /\ pc = "main"
    /\ top = None
    /\ accounts = <<>>
    /\ posts = <<>>
    /\ inventory = {}
    /\ items = <<>>
    /\ table = <<>>
    /\ stdout = <<>>

\* get_afa_posts, lines 24-27: the pattern matches no account, a ValueError is raised
GetAfaPostsRaise ==
    /\ pc = "main"
    /\ NotFound(find_account_re(konto))
    /\ pc' = "ValueError"
    /\ UNCHANGED <<parent, journal, year, konto, top, accounts, posts, inventory,
                   items, table, stdout>>

\* main, lines 215-216: the ValueError is caught and its message printed
MainExcept ==
    /\ pc = "ValueError"
    /\ stdout' = Append(stdout, <<"Konto nicht gefunden: ", konto>>)
    /\ pc' = "exit"
    /\ UNCHANGED <<parent, journal, year, konto, top, accounts, posts, inventory,
                   items, table>>

\* get_afa_posts, lines 24-31, when the pattern matches an account
GetAfaPosts ==
    /\ pc = "main"
    /\ ~NotFound(find_account_re(konto))
    /\ top' = find_account_re(konto)
    /\ accounts' = AfaAccounts(top')
    /\ posts' = AfaPosts(accounts', year)
    /\ pc' = "get_inventory"
    /\ UNCHANGED <<parent, journal, year, konto, inventory, items, table, stdout>>

\* main, line 212: get_inventory(posts)
GetInventory ==
    /\ pc = "get_inventory"
    /\ inventory' = get_inventory(posts)
    /\ pc' = "items"
    /\ UNCHANGED <<parent, journal, year, konto, top, accounts, posts, items, table,
                   stdout>>

\* main, line 212: the list comprehension takes the next pair of the set, in the
\* set's order of iteration, and constructs its InventoryItem.  The constructor
\* prints the unpacking's message (line 148); the AttributeError of line 177 is
\* caught nowhere and ends the run.
BuildItem ==
    /\ pc = "items"
    /\ \E pair \in inventory :
         LET account == pair[1]
             xact == pair[2]
             code == journal[xact].code
             fp == first_post(account, code)
             printed == IF Unpacked(fp) THEN <<>> ELSE <<UnpackMessage(fp)>>
         IN  /\ stdout' = stdout \o printed
             /\ IF DeprecationRaises(account, code, year)
                THEN /\ pc' = "AttributeError"
                     /\ UNCHANGED <<inventory, items>>
                ELSE /\ items' = Append(items, InventoryItem(account, xact, year))
                     /\ inventory' = inventory \ {pair}
                     /\ pc' = pc
    /\ UNCHANGED <<parent, journal, year, konto, top, accounts, posts, table>>

\* main, line 213
CreateTable ==
    /\ pc = "items"
    /\ inventory = {}
    /\ table' = create_table(items, year)
    /\ pc' = "print"
    /\ UNCHANGED <<parent, journal, year, konto, top, accounts, posts, inventory,
                   items, stdout>>

\* main, line 214
PrintTable ==
    /\ pc = "print"
    /\ stdout' = stdout \o table
    /\ pc' = "exit"
    /\ UNCHANGED <<parent, journal, year, konto, top, accounts, posts, inventory,
                   items, table>>

Next ==
    \/ GetAfaPostsRaise
    \/ MainExcept
    \/ GetAfaPosts
    \/ GetInventory
    \/ BuildItem
    \/ CreateTable
    \/ PrintTable

Spec == Init /\ [][Next]_vars

---------------------------------------------------------------------------
(* The tree walk on its own, over every account tree *)

\* The trees of n accounts: account 1 is the root, and the parent of every other
\* account is an account of a lower number.
RECURSIVE TreesOf(_)
TreesOf(n) ==
    IF n = 1 THEN { <<0>> }
    ELSE { Append(t, q) : t \in TreesOf(n - 1), q \in 1..(n - 1) }

Trees == UNION { TreesOf(n) : n \in 1..MaxAccounts }

InitWalk ==
    /\ parent \in Trees
    /\ top \in DOMAIN parent
    /\ pc = "walk"
    /\ accounts = <<>>
    /\ journal = <<>>
    /\ year = 0
    /\ konto = <<>>
    /\ posts = <<>>
    /\ inventory = {}
    /\ items = <<>>
    /\ table = <<>>
    /\ stdout = <<>>

\* get_sub_accounts(top)
Walk ==
    /\ pc = "walk"
    /\ accounts' = get_sub_accounts(top)
    /\ pc' = "walked"
    /\ UNCHANGED <<parent, journal, year, konto, top, posts, inventory, items, table,
                   stdout>>

NextWalk == Walk

SpecWalk == InitWalk /\ [][NextWalk]_vars

---------------------------------------------------------------------------
(* What the properties are stated with *)

\* d lies below a in the account tree.
RECURSIVE IsBelow(_, _)
IsBelow(d, a) == parent[d] # 0 /\ (parent[d] = a \/ IsBelow(parent[d], a))

\* The direct and indirect descendants of an account.
Descendants(a) == { d \in DOMAIN parent : IsBelow(d, a) }

\* The number of steps from a down to d, for d = a or d below a.
RECURSIVE DepthBelow(_, _)
DepthBelow(d, a) == IF d = a THEN 0 ELSE 1 + DepthBelow(parent[d], a)

\* The tree below a is complete with branching factor b and depth d.
Complete(a, b, d) ==
    \A n \in Descendants(a) \cup {a} :
        /\ DepthBelow(n, a) <= d
        /\ Cardinality(Children(n)) = IF DepthBelow(n, a) < d THEN b ELSE 0

RECURSIVE Power(_, _)
Power(b, e) == IF e = 0 THEN 1 ELSE b * Power(b, e - 1)

\* b + b^2 + ... + b^d
RECURSIVE GeomSum(_, _)
GeomSum(b, d) == IF d = 0 THEN 0 ELSE Power(b, d) + GeomSum(b, d - 1)

\* The account of a full name.
AccountNamed(fn) == CHOOSE a \in DOMAIN parent : fullname(a) = fn

\* The codes of the journal.
Codes == { journal[x].code : x \in 1..Len(journal) }

\* The postings with the code on the account's buy date that are positive.
FirstPostCandidates(a, c) ==
    LET buy == buy_date(a, c)
    IN  { p \in CodePosts(a, c) : Post(p).date = buy /\ Post(p).amount > 0 }

\* The first posting of the asset is missing or ambiguous.
Ambiguous(a, c) == Cardinality(FirstPostCandidates(a, c)) # 1

\* The account has a posting dated in the year.
ActiveIn(a, yr) == \E p \in AccountPosts(a) : YearOf(Post(p).date) = yr

\* The run got past get_afa_posts with an account.
Selected == pc \in {"get_inventory", "items", "print", "exit", "AttributeError"} /\ top # None

\* The table has been created from the complete list of items.
Tabled == pc \in {"print", "exit"} /\ top # None

\* The table is on the standard output.
Printed == pc = "exit" /\ top # None

---------------------------------------------------------------------------
(* C1 *)

\* C1: every InventoryItem built for an asset account without postings dated after
\* the reporting year has next_year_value = last_year_value + deprecation_amount.
C1_NextYearIdentity ==
    \A i \in 1..Len(items) :
        LET it == items[i]
            a == AccountNamed(it.account)
        IN  (\A p \in AccountPosts(a) : YearOf(Post(p).date) <= year)
            => it.next_year_value = it.last_year_value + it.deprecation_amount

\* An item of an asset bought before the year, with a purchase and a depreciation
\* in the year and nothing after it.
C1_Witness ==
    \E i \in 1..Len(items) :
        LET it == items[i]
            a == AccountNamed(it.account)
        IN  /\ \A p \in AccountPosts(a) : YearOf(Post(p).date) <= year
            /\ it.deprecation_amount < 0
            /\ it.next_year_value > 0
            /\ \E p \in CodePosts(a, it.code) :
                   YearOf(Post(p).date) = year /\ Post(p).amount > 0
            /\ \E p \in CodePosts(a, it.code) : YearOf(Post(p).date) < year

---------------------------------------------------------------------------
(* C3 *)

\* C3: when the pattern matches no account of the journal, the run ends in the
\* account-not-found error: no posting is collected, no pair discovered, no
\* InventoryItem built, no table created or printed, and main prints exactly one
\* line, the error message.
C3_MissingAccount ==
    ((\A a \in DOMAIN parent : ~Matches(konto, fullname(a))) /\ pc # "main")
    => /\ pc \in {"ValueError", "exit"}
       /\ top = None /\ accounts = <<>> /\ posts = <<>>
       /\ inventory = {} /\ items = <<>> /\ table = <<>>
       /\ pc = "ValueError" => stdout = <<>>
       /\ pc = "exit" => stdout = << <<"Konto nicht gefunden: ", konto>> >>

\* The run has ended with the message, on a journal with depreciation postings.
C3_Witness ==
    /\ konto = NameNonexistent
    /\ pc = "exit"
    /\ Len(stdout) = 1
    /\ \E p \in PostRefs : Post(p).account \in {AfA, GWG} /\ YearOf(Post(p).date) = year

---------------------------------------------------------------------------
(* C6 *)

\* C6: get_sub_accounts(account) returns exactly the direct and indirect descendants
\* of the account, never the account itself, each once; for a complete tree of
\* depth d and branching factor b it returns b + b^2 + ... + b^d accounts.
C6_TreeWalker ==
    pc = "walked"
    => /\ Range(accounts) = Descendants(top)
       /\ top \notin Range(accounts)
       /\ Len(accounts) = Cardinality(Range(accounts))
       /\ \A b \in 1..MaxAccounts, d \in 1..MaxAccounts :
              Complete(top, b, d) => Len(accounts) = GeomSum(b, d)

\* The walk of a complete tree of depth 2 and branching factor 2.
C6_Witness ==
    /\ pc = "walked"
    /\ Complete(top, 2, 2)
    /\ Len(accounts) = 6

---------------------------------------------------------------------------
(* C7 *)

\* C7: when the pattern resolves to an account, get_afa_posts returns exactly the
\* postings of that account and of its descendants that are dated in the target
\* year, each once.
C7_PostSelector ==
    Selected
    => /\ Matches(konto, fullname(top))
       /\ Range(posts) = { p \in PostRefs :
                             /\ Post(p).account \in {top} \cup Descendants(top)
                             /\ YearOf(Post(p).date) = year }
       /\ Len(posts) = Cardinality(Range(posts))

\* Postings of the account and of a descendant are returned, while the subtree has
\* a posting of another year and the journal a posting of the year outside it.
C7_Witness ==
    /\ Selected
    /\ \E p \in Range(posts) : Post(p).account = top
    /\ \E p \in Range(posts) : Post(p).account \in Descendants(top)
    /\ \E p \in PostRefs : /\ Post(p).account \in {top} \cup Descendants(top)
                           /\ YearOf(Post(p).date) # year
    /\ \E p \in PostRefs : /\ Post(p).account \notin {top} \cup Descendants(top)
                           /\ YearOf(Post(p).date) = year

---------------------------------------------------------------------------
(* C10 *)

\* The positive postings with the code dated in the year.
PurchasesIn(a, c, yr) ==
    { p \in CodePosts(a, c) : YearOf(Post(p).date) = yr /\ Post(p).amount > 0 }

\* C10: for every account, code and year Y the opening book value of Y
\* (last_year_value, under the header of Y-1) is the closing book value of Y-1
\* (next_year_value for Y-1) plus the positive postings with the code dated in Y;
\* the two are equal exactly when there is no such posting.  The run leaves the
\* journal and the year as they are, so the figures of every account with postings
\* and every code are compared where the run starts, for the year of the run, and
\* those of the items where they are built.
C10_CrossYear ==
    /\ pc = "main"
       => \A a \in { Post(p).account : p \in PostRefs }, c \in Codes :
              LET purchases == PurchasesIn(a, c, year)
                  opening == last_year_value(a, c, year)
                  closing == next_year_value(a, c, year - 1)
              IN  /\ opening = closing + Sum({ <<p, Post(p).amount>> : p \in purchases })
                  /\ (opening = closing) <=> (purchases = {})
    /\ \A i \in 1..Len(items) :
           LET a == AccountNamed(items[i].account)
               purchases == PurchasesIn(a, items[i].code, year)
               closing == next_year_value(a, items[i].code, year - 1)
           IN  /\ items[i].last_year_value =
                      closing + Sum({ <<p, Post(p).amount>> : p \in purchases })
               /\ (items[i].last_year_value = closing) <=> (purchases = {})
    /\ Tabled => table[1].buchwert_last = year - 1 /\ table[1].buchwert_next = year

\* A printed item of an asset with a book value at the end of the year before and
\* a further purchase in the year.
C10_Witness ==
    /\ Printed
    /\ \E i \in 1..Len(items) :
           LET a == AccountNamed(items[i].account)
           IN  /\ PurchasesIn(a, items[i].code, year) # {}
               /\ next_year_value(a, items[i].code, year - 1) > 0
               /\ items[i].last_year_value > next_year_value(a, items[i].code, year - 1)

---------------------------------------------------------------------------
(* C2 *)

\* The depreciation posting p references the account a under the code c: its
\* transaction carries the code and holds a posting on a, another account than p's.
References(p, a, c) ==
    /\ Code(p) = c
    /\ fullname(a) # fullname(Post(p).account)
    /\ \E r \in Range(XactPosts(p[1])) : Post(r).account = a

\* The items built for the account and the code.
ItemsFor(a, c) ==
    { i \in 1..Len(items) : items[i].account = fullname(a) /\ items[i].code = c }

\* C2: whenever two depreciation postings of the year reference the same (account
\* full name, transaction code), exactly one InventoryItem is built for that asset,
\* also when the two postings belong to two transactions with the same code.
C2_OneItemPerAssetAndCode ==
    Tabled
    => \A p, q \in Range(posts) : \A a \in DOMAIN parent, c \in Codes :
           (p # q /\ References(p, a, c) /\ References(q, a, c))
           => Cardinality(ItemsFor(a, c)) = 1

---------------------------------------------------------------------------
(* C8 *)

\* The postings of the purchase that have a negative sibling in their transaction.
Funded(a, c) ==
    LET buy == buy_date(a, c)
    IN  { p \in CodePosts(a, c) :
            /\ Post(p).date = buy
            /\ \E pn \in Range(XactPosts(p[1])) : pn # p /\ Post(pn).amount < 0 }

\* C8: total_value is the sum of abs(p.amount) over the postings p of the purchase
\* that have a negative sibling posting, each counted once however many negative
\* siblings its transaction has.
C8_TotalValueCountsOnce ==
    \A i \in 1..Len(items) :
        items[i].total_value =
            Sum({ <<p, Abs(Post(p).amount)>> :
                  p \in Funded(AccountNamed(items[i].account), items[i].code) })

---------------------------------------------------------------------------
(* C4 *)

\* The transaction x is the purchase of the asset a for v: a positive posting of v
\* on a, funded by one negative posting of -v on another account, both on the
\* transaction's date.
IsPurchase(x, a, v) ==
    /\ v > 0
    /\ Len(journal[x].posts) = 2
    /\ \E i, j \in 1..2 :
          /\ journal[x].posts[i] = Posting(a, v, journal[x].date)
          /\ journal[x].posts[j].account # a
          /\ journal[x].posts[j].amount = -v
          /\ journal[x].posts[j].date = journal[x].date

\* The transaction x is a depreciation of the asset a: a negative posting on a
\* paired with a posting on the depreciation account or one of its sub accounts,
\* both on the transaction's date.
IsDepreciation(x, a) ==
    /\ Len(journal[x].posts) = 2
    /\ \E i, j \in 1..2 :
          /\ journal[x].posts[i].account = a
          /\ journal[x].posts[i].amount < 0
          /\ journal[x].posts[i].date = journal[x].date
          /\ journal[x].posts[j].account \in {top} \cup Descendants(top)
          /\ journal[x].posts[j].date = journal[x].date

\* The journal is the prior-year purchase scenario for the asset a, the code c and
\* the value v: the purchase px in a year before the reporting year, and
\* depreciations after it, one at least in the reporting year, all with the code c.
PriorYearPurchase(px, a, c, v) ==
    /\ IsPurchase(px, a, v)
    /\ YearOf(journal[px].date) < year
    /\ \A x \in 1..Len(journal) : journal[x].code = c
    /\ \A x \in 1..Len(journal) \ {px} :
          IsDepreciation(x, a) /\ journal[x].date > journal[px].date
    /\ \E x \in 1..Len(journal) \ {px} : YearOf(journal[x].date) = year

\* The negative postings with the code on the account in the years `years`.
DepreciationsIn(a, c, years) ==
    { p \in CodePosts(a, c) : Post(p).amount < 0 /\ YearOf(Post(p).date) \in years }

\* The journal of the instance: 1000 on 2020-01-15, -200 on 2021-06-01.
InstanceJournal == << Purchase("INV1", D1), Deprec("INV1", D3, AfA) >>

\* C4: in the prior-year purchase scenario the printed report of the year Y has a
\* row for the asset with the purchase date, total_value = V, last_year_value = V
\* plus the depreciation before Y, deprecation_amount = the negative postings of Y,
\* next_year_value = their sum; the instance gives 1000 / 1000 / -200 / 800.
C4_PriorYearPurchase ==
    /\ Printed
       => \A purchase \in PostRefs :
              LET px == purchase[1]
                  a == Post(purchase).account
                  c == Code(purchase)
                  v == Post(purchase).amount
                  last == v + Sum({ <<p, Post(p).amount>> :
                                    p \in DepreciationsIn(a, c, 0..(year - 1)) })
                  dep == Sum({ <<p, Post(p).amount>> :
                               p \in DepreciationsIn(a, c, {year}) })
                  row == [ kind |-> "row", date |-> journal[px].date, code |-> c,
                           item |-> name(a), total_value |-> v,
                           last_year_value |-> last, deprecation_amount |-> dep,
                           next_year_value |-> last + dep ]
              IN  PriorYearPurchase(px, a, c, v)
                  => /\ row \in Range(stdout)
                     /\ \E i \in 1..Len(items) :
                            items[i].account = fullname(a) /\ ItemRow(items[i]) = row
    /\ (Printed /\ journal = InstanceJournal /\ year = 2021 /\ konto = NameAfA)
       => [ kind |-> "row", date |-> Date(2020, 1, 15), code |-> "INV1",
            item |-> NamePC, total_value |-> 1000, last_year_value |-> 1000,
            deprecation_amount |-> -200, next_year_value |-> 800 ] \in Range(stdout)

\* The report of a year with a depreciation, for an asset depreciated before.
C4_Witness ==
    /\ Printed
    /\ \E px \in 1..Len(journal), c \in Codes :
          /\ PriorYearPurchase(px, PC, c, 1000)
          /\ DepreciationsIn(PC, c, 0..(year - 1)) # {}
          /\ DepreciationsIn(PC, c, {year}) # {}

---------------------------------------------------------------------------
(* C5 *)

\* The run of the purchase year on the journal of the instance has ended.
PurchaseYearRun ==
    journal = InstanceJournal /\ year = 2020 /\ konto = NameAfA /\ pc = "exit"

\* C5 as stated: the report of the purchase year 2020 on the journal of the
\* instance has an item for the asset, whose first_post is the +1000 entry, with
\* deprecation_amount = 0, last_year_value = 1000 and next_year_value = 1000.
C5_PurchaseYearItem ==
    PurchaseYearRun
    => \E i \in 1..Len(items) :
           /\ items[i].account = fullname(PC)
           /\ items[i].first_post = << <<1, 1>> >>
           /\ items[i].deprecation_amount = 0
           /\ items[i].last_year_value = 1000
           /\ items[i].next_year_value = 1000

\* C5, amended: the report of 2020 on that journal has no item, since no
\* depreciation posting is dated in 2020: no posting is selected and the table is
\* the header and a footer of zeros.  The InventoryItem of the asset and its
\* purchase for 2020, constructed on its own, has the +1000 entry as first_post,
\* deprecation_amount = 0, last_year_value = 1000 and next_year_value = 1000.
C5_PurchaseYearNoItem ==
    PurchaseYearRun
    => /\ posts = <<>>
       /\ items = <<>>
       /\ stdout = << [ kind |-> "header", buchwert_last |-> 2019, buchwert_next |-> 2020 ],
                      [ kind |-> "footer", item |-> "Gesamt", total_value |-> 0,
                        last_year_value |-> 0, deprecation_amount |-> 0,
                        next_year_value |-> 0 ] >>
       /\ ~DeprecationRaises(PC, "INV1", 2020)
       /\ LET it == InventoryItem(PC, 1, 2020)
          IN  /\ it.first_post = << <<1, 1>> >>
              /\ Post(it.first_post[1]) = Posting(PC, 1000, Date(2020, 1, 15))
              /\ it.deprecation_amount = 0
              /\ it.last_year_value = 1000
              /\ it.next_year_value = 1000

\* The run has ended and printed a table of two lines.
C5_Witness == PurchaseYearRun /\ Len(stdout) = 2 /\ top = AfA

---------------------------------------------------------------------------
(* C9 *)

\* The journal dates every posting as its transaction.
PostingsDatedAsXact == \A p \in PostRefs : Post(p).date = journal[p[1]].date

\* C9 as stated: whenever the first posting of a discovered asset is missing or
\* ambiguous, construction raises, no table is output, and no InventoryItem
\* without a first_post is ever completed.
C9_AmbiguousAlwaysRaises ==
    /\ \A i \in 1..Len(items) : ~Ambiguous(AccountNamed(items[i].account), items[i].code)
    /\ Tabled => \A pair \in get_inventory(posts) :
                     ~Ambiguous(pair[1], journal[pair[2]].code)

\* C9, amended: whenever the first posting of a discovered asset is missing or
\* ambiguous and the asset account has a posting dated in the reporting year,
\* construction prints a message and raises at the deprecation_amount computation,
\* the run ends there and no table is output.  An InventoryItem without a
\* first_post is completed only for an account without a posting dated in the
\* year, after the message; no journal that dates every posting as its transaction
\* has such an account.
C9_AmbiguousRaisesWhenActive ==
    /\ \A i \in 1..Len(items) :
          LET a == AccountNamed(items[i].account)
          IN  IF Ambiguous(a, items[i].code)
              THEN /\ ~ActiveIn(a, year)
                   /\ ~PostingsDatedAsXact
                   /\ ~Unpacked(items[i].first_post)
                   /\ \E k \in 1..Len(stdout) :
                          stdout[k] = UnpackMessage(items[i].first_post)
              ELSE Unpacked(items[i].first_post)
    /\ Tabled => \A pair \in get_inventory(posts) :
                     Ambiguous(pair[1], journal[pair[2]].code) => ~ActiveIn(pair[1], year)
    /\ pc = "AttributeError"
       => /\ table = <<>>
          /\ stdout # <<>>
          /\ \E pair \in inventory :
                /\ Ambiguous(pair[1], journal[pair[2]].code)
                /\ ActiveIn(pair[1], year)
                /\ stdout[Len(stdout)] = UnpackMessage(first_post(pair[1], journal[pair[2]].code))

\* The run has ended at the construction of an item with two first postings, after
\* the message.
C9_Witness ==
    /\ pc = "AttributeError"
    /\ stdout[Len(stdout)] = "too many values to unpack"
    /\ \E pair \in inventory :
          Cardinality(FirstPostCandidates(pair[1], journal[pair[2]].code)) = 2

===========================================================================
